---- MODULE Spec2Model ----
(***************************************************************************)
(* Model of src/visual_results.py: the evaluation reporter.                *)
(*                                                                         *)
(* generate_evaluation_reports_and_plots runs inference, thresholds the    *)
(* probabilities, creates the output directory and calls four artifact     *)
(* generators; every function wraps its body in try/except Exception.      *)
(*                                                                         *)
(* Probabilities are modelled in tenths, so the threshold 0.5 of the       *)
(* source is the integer Threshold == 5 and probability 1.0 is ProbScale.  *)
(* The sklearn.metrics functions are modelled by their definitions, with   *)
(* rates kept as fractions of counts; a curve over a single class has the  *)
(* denominator 0 (sklearn warns and yields NaN there, it does not raise).  *)
(* An exception is a string (its error text); NoExc is "no exception".     *)
(***************************************************************************)
EXTENDS Integers, Sequences, FiniteSets, TLC

\* ------------------------------------------------------------------ bounds
MaxRows == 2      \* records in the data frame of the fault-injecting runs
MaxRuns == 2      \* calls of generate_evaluation_reports_and_plots in a behaviour
MaxN == 4         \* records in the data frame of the fault-free metric runs
MaxFaults == 4    \* failures the environment injects in a behaviour

\* --------------------------------------------------------------- constants
Threshold == 5                      \* 0.5 in tenths
ProbScale == 2 * Threshold          \* probability 1.0 in tenths
Labels == {0, 1}
ProbValues == {1, 4, 5, 6, 9}       \* 0.1, 0.4, 0.5, 0.6, 0.9
FaultRunProbs == {4, 5}             \* scores of the fault-injecting runs

NoExc == ""

CM_FILE == "confusion_matrix.png"
CR_FILE == "classification_report.txt"
ROC_FILE == "roc_curve.png"
PR_FILE == "precision_recall_curve.png"
FileNames == {CM_FILE, CR_FILE, ROC_FILE, PR_FILE}

\* Points inside a function body where the environment can make a call raise.
Faults == {"none", "metrics", "render", "write"}

\* ----------------------------------------------------------------- helpers
RECURSIVE SortedSeq(_)
\* sorted (ascending) sequence of the elements of a finite set of integers
SortedSeq(S) ==
    IF S = {} THEN <<>>
    ELSE LET m == CHOOSE x \in S : \A y \in S : x <= y
         IN <<m>> \o SortedSeq(S \ {m})

RECURSIVE SortedDesc(_)
SortedDesc(S) ==
    IF S = {} THEN <<>>
    ELSE LET m == CHOOSE x \in S : \A y \in S : x >= y
         IN <<m>> \o SortedDesc(S \ {m})

Range(s) == {s[i] : i \in 1..Len(s)}

\* np.unique(np.concatenate([a, b])): the sorted distinct values of both
np_unique_concat(a, b) == SortedSeq(Range(a) \cup Range(b))

\* ------------------------------------------------- sklearn.metrics (library)
\* confusion_matrix(y_true, y_pred, labels=labels); labels = <<>> stands for
\* labels=None, where sklearn takes the sorted union of both label vectors.
\* sklearn raises ValueError when labels are given and none occurs in y_true.
confusion_matrix(y_true, y_pred, labels) ==
    LET ls == IF labels = <<>> THEN np_unique_concat(y_true, y_pred) ELSE labels
        n  == Len(y_true)
    IN IF labels # <<>> /\ Range(labels) \cap Range(y_true) = {}
       THEN [exc |-> "At least one label specified must be in y_true", val |-> <<>>]
       ELSE [exc |-> NoExc,
             val |-> [i \in 1..Len(ls) |->
                        [j \in 1..Len(ls) |->
                           Cardinality({k \in 1..n :
                               y_true[k] = ls[i] /\ y_pred[k] = ls[j]})]]]

\* classification_report(y_true, y_pred, labels=, target_names=): one row per
\* label, holding the counts precision, recall, F1 and support are computed
\* from (tp, number predicted, support).  labels = <<>> stands for None.
classification_report(y_true, y_pred, labels, target_names) ==
    LET ls == IF labels = <<>> THEN np_unique_concat(y_true, y_pred) ELSE labels
        n  == Len(y_true)
    IN IF labels # <<>> /\ Len(target_names) # Len(labels)
       THEN [exc |-> "Number of classes does not match size of target_names",
             val |-> <<>>]
       ELSE [exc |-> NoExc,
             val |-> [i \in 1..Len(ls) |->
                        [name    |-> ls[i],
                         tp      |-> Cardinality({k \in 1..n :
                                        y_true[k] = ls[i] /\ y_pred[k] = ls[i]}),
                         npred   |-> Cardinality({k \in 1..n : y_pred[k] = ls[i]}),
                         support |-> Cardinality({k \in 1..n : y_true[k] = ls[i]})]]]

\* Cumulative counts at the distinct score thresholds, highest first:
\* tps[k] / fps[k] = positives / negatives with score >= threshold k.
Thresholds(y_score) == SortedDesc(Range(y_score))

Tps(y_true, y_score) ==
    LET th == Thresholds(y_score)
    IN [k \in 1..Len(th) |->
          Cardinality({i \in 1..Len(y_true) : y_true[i] = 1 /\ y_score[i] >= th[k]})]

Fps(y_true, y_score) ==
    LET th == Thresholds(y_score)
    IN [k \in 1..Len(th) |->
          Cardinality({i \in 1..Len(y_true) : y_true[i] # 1 /\ y_score[i] >= th[k]})]

\* roc_curve(y_true, y_score): the points (fps, tps), in counts, starting at
\* the added origin (0, 0); fpr = fps / nneg and tpr = tps / npos.
roc_curve(y_true, y_score) ==
    [fps  |-> <<0>> \o Fps(y_true, y_score),
     tps  |-> <<0>> \o Tps(y_true, y_score),
     npos |-> Cardinality({i \in 1..Len(y_true) : y_true[i] = 1}),
     nneg |-> Cardinality({i \in 1..Len(y_true) : y_true[i] # 1})]

RECURSIVE Trapz2(_, _, _)
\* twice the trapezoidal area under the count curve, points 1..k
Trapz2(x, y, k) ==
    IF k <= 1 THEN 0
    ELSE Trapz2(x, y, k - 1) + (x[k] - x[k - 1]) * (y[k] + y[k - 1])

\* auc(fpr, tpr) as the fraction num / den; den = 0 is the undefined (NaN)
\* area of a curve with a class missing.
auc(roc) ==
    [num |-> Trapz2(roc.fps, roc.tps, Len(roc.fps)),
     den |-> 2 * roc.npos * roc.nneg]

RECURSIVE ApSum(_, _, _)
\* sum over thresholds 1..k of (tps[k] - tps[k-1]) * tps[k] / (tps[k] + fps[k])
\* as an unreduced fraction <<num, den>>
ApSum(tps, fps, k) ==
    IF k = 0 THEN <<0, 1>>
    ELSE LET prev == ApSum(tps, fps, k - 1)
             d    == tps[k] - (IF k = 1 THEN 0 ELSE tps[k - 1])
             tot  == tps[k] + fps[k]
         IN IF d = 0 THEN prev
            ELSE <<prev[1] * tot + d * tps[k] * prev[2], prev[2] * tot>>

\* average_precision_score(y_true, y_score) = sum_k (R_k - R_{k-1}) * P_k,
\* as the fraction num / den; den = 0 when there is no positive record.
average_precision_score(y_true, y_score) ==
    LET tps == Tps(y_true, y_score)
        fps == Fps(y_true, y_score)
        s   == ApSum(tps, fps, Len(tps))
        npos == Cardinality({i \in 1..Len(y_true) : y_true[i] = 1})
    IN [num |-> s[1], den |-> s[2] * npos]

\* ------------------------------------------------------------------- state
VARIABLES
    pc,        \* position of the caller / of generate_evaluation_reports_and_plots
    df,        \* the data frame: column name -> sequence of values
    model,     \* the inference capability handed to the call: text -> probability
    dirExists, \* the output directory config["evaluation"]["output_dir"] exists
    files,     \* the files of the output directory: name -> content
    figs,      \* number of open figures of the process-wide pyplot state
    log,       \* records logged by the current call
    escaped,   \* the exception that left the call (NoExc: it returned normally)
    runs,      \* calls made so far
    calls,     \* history: functions invoked by the current call, in order
    injected,  \* history: <<function, fault>> failures raised in the current call
    written,   \* history: file names written by the current call
    budget     \* failures the environment may still inject

vars == <<pc, df, model, dirExists, files, figs, log, escaped, runs, calls,
          injected, written, budget>>

Info(msg)       == [level |-> "INFO", msg |-> msg, err |-> NoExc]
Error(msg, exc) == [level |-> "ERROR", msg |-> msg, err |-> exc]

\* The error text of a failure the environment injects at a fault point.
ErrText(fault) ==
    CASE fault = "metrics"   -> "metrics computation failed"
      [] fault = "render"    -> "rendering failed"
      [] fault = "write"     -> "file write failed"
      [] fault = "inference" -> "inference failed"
      [] fault = "mkdir"     -> "cannot create directory"
      [] OTHER               -> NoExc

\* The part of the process a generator reads and changes.
World == [dirExists |-> dirExists, files |-> files, figs |-> figs, log |-> log,
          written |-> written, exc |-> NoExc]

\* ------------------------------------------------------ file and figure I/O
\* Variant of write_file: the file is opened for appending ("a"), so an
\* existing file keeps its old content.
write_file_append(w, name, content, fault) ==
    IF fault = "write" THEN [w EXCEPT !.exc = ErrText("write")]
    ELSE IF ~w.dirExists THEN [w EXCEPT !.exc = "No such file or directory"]
    ELSE [w EXCEPT !.files = (name :> (IF name \in DOMAIN w.files
                                       THEN w.files[name] ELSE <<>>)
                                      \o <<content>>) @@ @,
                   !.written = @ \cup {name}]

\* open(path, "w") + write, and plt.savefig(path): the file is created or
\* truncated, so its content is this write alone.  Raises when the directory
\* is missing or the environment fails the write.
write_file(w, name, content, fault) ==
    IF fault = "write" THEN [w EXCEPT !.exc = ErrText("write")]
    ELSE IF ~w.dirExists THEN [w EXCEPT !.exc = "No such file or directory"]
    ELSE [w EXCEPT !.files = (name :> <<content>>) @@ @,
                   !.written = @ \cup {name}]

\* plt.figure() / the plt.subplots() inside ConfusionMatrixDisplay.plot():
\* a fresh figure becomes the current one.
plt_figure(w) == [w EXCEPT !.figs = @ + 1]

\* plt.close(): closes the current figure, if there is one.
plt_close(w) == [w EXCEPT !.figs = IF @ > 0 THEN @ - 1 ELSE 0]

logging_info(w, msg) == [w EXCEPT !.log = Append(@, Info(msg))]

\* except Exception as e: logging.error(f"<msg>: {e}") -- the exception is
\* consumed and the function returns normally.
except_log(w, msg) ==
    IF w.exc = NoExc THEN w
    ELSE [w EXCEPT !.log = Append(@, Error(msg, w.exc)), !.exc = NoExc]

\* Sequencing inside a try body: r is the world after the next statement ran
\* on w; once a statement has raised, the rest of the body is skipped.
Then(w, r) == IF w.exc # NoExc THEN w ELSE r

Raise(w, text) == [w EXCEPT !.exc = text]

\* ------------------------------------------------------ artifact generators
\* Variant of unique_labels: the distinct values of the true labels alone.
unique_labels_true_only(true_labels, predicted_labels) ==
    SortedSeq(Range(true_labels))

\* np.unique(np.concatenate([true_labels, predicted_labels]))
unique_labels(true_labels, predicted_labels) ==
    np_unique_concat(true_labels, predicted_labels)

\* The try body of plot_confusion_matrix.
cm_body(true_labels, predicted_labels, w, fault) ==
    LET ul   == unique_labels(true_labels, predicted_labels)
        cm   == IF Len(ul) = 1
                THEN confusion_matrix(true_labels, predicted_labels, <<ul[1]>>)
                ELSE confusion_matrix(true_labels, predicted_labels, <<>>)
        disp == [artifact |-> "confusion_matrix", cm |-> cm.val,
                 display_labels |-> IF Len(ul) = 1 THEN <<ul[1]>> ELSE <<>>]
        w1 == IF fault = "metrics" THEN Raise(w, ErrText("metrics"))
              ELSE IF cm.exc # NoExc THEN Raise(w, cm.exc) ELSE w
        \* disp.plot(cmap=...) opens the figure, then draws; plt.title(...)
        w2 == Then(w1, IF fault = "render"
                                  THEN Raise(plt_figure(w1), ErrText("render"))
                                  ELSE plt_figure(w1))
        w3 == Then(w2, write_file(w2, CM_FILE, disp, fault))
        w4 == Then(w3, plt_close(w3))
    IN Then(w4, logging_info(w4, "Confusion matrix saved"))

plot_confusion_matrix(true_labels, predicted_labels, w, fault) ==
    except_log(cm_body(true_labels, predicted_labels, w, fault),
               "Failed to generate confusion matrix")

\* The try body of generate_classification_report.
cr_body(true_labels, predicted_labels, w, fault) ==
    LET ul     == unique_labels(true_labels, predicted_labels)
        report == IF Len(ul) = 1
                  THEN classification_report(true_labels, predicted_labels,
                                             <<ul[1]>>, <<ul[1]>>)
                  ELSE classification_report(true_labels, predicted_labels,
                                             <<>>, <<>>)
        w1 == IF fault = "metrics" THEN Raise(w, ErrText("metrics"))
              ELSE IF report.exc # NoExc THEN Raise(w, report.exc) ELSE w
        w2 == Then(w1, write_file(w1, CR_FILE,
                  [artifact |-> "classification_report", rows |-> report.val],
                  fault))
    IN Then(w2, logging_info(w2, "Classification report saved"))

\* Variant of generate_classification_report: the failure is not caught.
generate_classification_report_raising(true_labels, predicted_labels, w, fault) ==
    cr_body(true_labels, predicted_labels, w, fault)

generate_classification_report(true_labels, predicted_labels, w, fault) ==
    except_log(cr_body(true_labels, predicted_labels, w, fault),
               "Failed to generate classification report")

\* The try body of plot_roc_curve.
roc_body(true_labels, predicted_probabilities, w, fault) ==
    LET roc     == roc_curve(true_labels, predicted_probabilities)
        roc_auc == auc(roc)
        w1 == IF fault = "metrics" THEN Raise(w, ErrText("metrics")) ELSE w
        w2 == Then(w1, IF fault = "render"
                                  THEN Raise(plt_figure(w1), ErrText("render"))
                                  ELSE plt_figure(w1))
        w3 == Then(w2, write_file(w2, ROC_FILE,
                  [artifact |-> "roc_curve", fps |-> roc.fps, tps |-> roc.tps,
                   auc |-> roc_auc], fault))
        w4 == Then(w3, plt_close(w3))
    IN Then(w4, logging_info(w4, "ROC curve saved"))

\* Variant of plot_roc_curve: the failure is logged and raised again.
plot_roc_curve_reraising(true_labels, predicted_probabilities, w, fault) ==
    LET r == roc_body(true_labels, predicted_probabilities, w, fault)
    IN IF r.exc = NoExc THEN r
       ELSE [r EXCEPT !.log = Append(@, Error("Failed to generate ROC curve", r.exc))]

plot_roc_curve(true_labels, predicted_probabilities, w, fault) ==
    except_log(roc_body(true_labels, predicted_probabilities, w, fault),
               "Failed to generate ROC curve")

\* The try body of plot_precision_recall_curve.
pr_body(true_labels, predicted_probabilities, w, fault) ==
    LET avg_precision ==
            average_precision_score(true_labels, predicted_probabilities)
        w1 == IF fault = "metrics" THEN Raise(w, ErrText("metrics")) ELSE w
        w2 == Then(w1, IF fault = "render"
                                  THEN Raise(plt_figure(w1), ErrText("render"))
                                  ELSE plt_figure(w1))
        w3 == Then(w2, write_file(w2, PR_FILE,
                  [artifact |-> "precision_recall_curve",
                   tps |-> Tps(true_labels, predicted_probabilities),
                   fps |-> Fps(true_labels, predicted_probabilities),
                   avg_precision |-> avg_precision], fault))
        w4 == Then(w3, plt_close(w3))
    IN Then(w4, logging_info(w4, "Precision-Recall curve saved"))

plot_precision_recall_curve(true_labels, predicted_probabilities, w, fault) ==
    except_log(pr_body(true_labels, predicted_probabilities, w, fault),
               "Failed to generate Precision-Recall curve")

\* ------------------------------------ generate_evaluation_reports_and_plots
\* predict_proba(texts, model, tokenizer, device, config) of src.model_utils:
\* one probability per text, aligned by position.
predict_proba(texts, m) == [i \in 1..Len(texts) |-> m[texts[i]]]

\* Variant of threshold_labels: the comparison is strict (> 0.5).
threshold_labels_strict(proba) ==
    [i \in 1..Len(proba) |-> IF proba[i] > Threshold THEN 1 ELSE 0]

\* (df["predicted_proba"] >= 0.5).astype(int)
threshold_labels(proba) ==
    [i \in 1..Len(proba) |-> IF proba[i] >= Threshold THEN 1 ELSE 0]

\* Variant of Steps: the directory is created after the first generator ran.
Steps_mkdir_late ==
    <<"predict_proba", "threshold", "plot_confusion_matrix", "makedirs",
      "generate_classification_report", "plot_roc_curve",
      "plot_precision_recall_curve", "success">>

\* The statements of the try body, in program order.
Steps == <<"predict_proba", "threshold", "makedirs", "plot_confusion_matrix",
           "generate_classification_report", "plot_roc_curve",
           "plot_precision_recall_curve", "success">>

StepIndex(s) == CHOOSE i \in 1..Len(Steps) : Steps[i] = s

\* The statement that follows statement s of the try body.
NextStep(s) == Steps[StepIndex(s) + 1]

\* Variant of top_except: the except clause does not match the exception,
\* which leaves the function.
top_except_unmatched(lg, e) == [log |-> lg, escaped |-> e]

\* except Exception as e of generate_evaluation_reports_and_plots
top_except(lg, e) ==
    [log     |-> Append(lg, Error("Failed to generate evaluation reports and plots", e)),
     escaped |-> NoExc]

\* Variant of call_plot_confusion_matrix: the two label arguments swapped.
call_plot_confusion_matrix_swapped(d, w, fault) ==
    plot_confusion_matrix(d["predicted_yo2"], d["yo2"], w, fault)

\* Variant of call_plot_precision_recall_curve: the ROC generator is called
\* a second time instead.
call_plot_roc_curve_again(d, w, fault) ==
    plot_roc_curve(d["yo2"], d["predicted_proba"], w, fault)

\* The four calls of the try body, with the arguments the source passes.
call_plot_confusion_matrix(d, w, fault) ==
    plot_confusion_matrix(d["yo2"], d["predicted_yo2"], w, fault)

call_generate_classification_report(d, w, fault) ==
    generate_classification_report(d["yo2"], d["predicted_yo2"], w, fault)

call_plot_roc_curve(d, w, fault) ==
    plot_roc_curve(d["yo2"], d["predicted_proba"], w, fault)

call_plot_precision_recall_curve(d, w, fault) ==
    plot_precision_recall_curve(d["yo2"], d["predicted_proba"], w, fault)

\* ----------------------------------------------------------------- actions
LabelVectors(n) == UNION {[1..k -> Labels] : k \in 1..n}
Models(n, P) == [1..n -> P]

\* The state before the first call: a data frame with the columns yo2 and
\* full_text (text i is row i's text), no output directory, no open figure.
InitWith(n, P, b) ==
    /\ pc = "idle"
    /\ \E y \in LabelVectors(n) :
          /\ df = [c \in {"yo2", "full_text"} |->
                     IF c = "yo2" THEN y ELSE [i \in 1..Len(y) |-> i]]
          /\ model \in Models(Len(y), P)
    /\ budget = b
    /\ dirExists = FALSE
    /\ files = <<>>
    /\ figs = 0
    /\ log = <<>>
    /\ escaped = NoExc
    /\ runs = 0
    /\ calls = <<>>
    /\ injected = {}
    /\ written = {}

Init == InitWith(MaxRows, FaultRunProbs, MaxFaults)

\* The caller invokes generate_evaluation_reports_and_plots(df, model, ...),
\* each time with the same data frame object and the same model.
Call(maxRuns) ==
    /\ pc \in {"idle", "returned"}
    /\ escaped = NoExc
    /\ runs < maxRuns
    /\ pc' = Steps[1]
    /\ runs' = runs + 1
    /\ log' = <<>>
    /\ calls' = <<>>
    /\ injected' = {}
    /\ written' = {}
    /\ UNCHANGED <<df, model, dirExists, files, figs, escaped, budget>>

\* A statement of the try body raised exception e: control passes to the
\* except clause of generate_evaluation_reports_and_plots.
Raised(lg, e) ==
    LET h == top_except(lg, e)
    IN /\ log' = h.log
       /\ escaped' = h.escaped
       /\ pc' = "returned"

Completed(s, lg) ==
    /\ log' = lg
    /\ pc' = NextStep(s)
    /\ escaped' = escaped

Inject(s, fault) ==
    /\ fault # "none" => budget > 0
    /\ injected' = IF fault = "none" THEN injected ELSE injected \cup {<<s, fault>>}
    /\ budget' = IF fault = "none" THEN budget ELSE budget - 1

\* lines 35-48: the two info records and the inference call
PredictProba(F) ==
    /\ pc = "predict_proba"
    /\ \E fault \in F \cap {"none", "inference"} :
         LET lg == log \o <<Info("Generating evaluation reports and plots..."),
                           Info("Calculating predicted probabilities...")>>
         IN /\ Inject("predict_proba", fault)
            /\ IF fault = "none"
               THEN /\ df' = ("predicted_proba" :>
                                predict_proba(df["full_text"], model)) @@ df
                    /\ Completed("predict_proba", lg)
               ELSE /\ df' = df
                    /\ Raised(lg, ErrText(fault))
    /\ calls' = Append(calls, "predict_proba")
    /\ UNCHANGED <<model, dirExists, files, figs, runs, written>>

\* lines 51-54
ThresholdStep ==
    /\ pc = "threshold"
    /\ df' = ("predicted_yo2" :> threshold_labels(df["predicted_proba"])) @@ df
    /\ Completed("threshold", log)
    /\ calls' = Append(calls, "threshold")
    /\ UNCHANGED <<model, dirExists, files, figs, runs, injected, written, budget>>

\* lines 57-58: os.makedirs(output_dir, exist_ok=True)
MakeDirs(F) ==
    /\ pc = "makedirs"
    /\ \E fault \in F \cap {"none", "mkdir"} :
         /\ Inject("makedirs", fault)
         /\ IF fault = "none"
            THEN dirExists' = TRUE /\ Completed("makedirs", log)
            ELSE dirExists' = dirExists /\ Raised(log, ErrText(fault))
    /\ calls' = Append(calls, "makedirs")
    /\ UNCHANGED <<df, model, files, figs, runs, written>>

\* A call of an artifact generator that left the world as r.
Generated(s, r, fault) ==
    /\ Inject(s, fault)
    /\ dirExists' = r.dirExists
    /\ files' = r.files
    /\ figs' = r.figs
    /\ written' = r.written
    /\ calls' = Append(calls, s)
    /\ IF r.exc = NoExc THEN Completed(s, r.log) ELSE Raised(r.log, r.exc)
    /\ UNCHANGED <<df, model, runs>>

\* line 61
PlotConfusionMatrix(F) ==
    /\ pc = "plot_confusion_matrix"
    /\ \E fault \in F \cap {"none", "metrics", "render", "write"} :
         Generated(pc, call_plot_confusion_matrix(df, World, fault), fault)

\* line 64
GenerateClassificationReport(F) ==
    /\ pc = "generate_classification_report"
    /\ \E fault \in F \cap {"none", "metrics", "write"} :
         Generated(pc, call_generate_classification_report(df, World, fault), fault)

\* line 67
PlotRocCurve(F) ==
    /\ pc = "plot_roc_curve"
    /\ \E fault \in F \cap {"none", "metrics", "render", "write"} :
         Generated(pc, call_plot_roc_curve(df, World, fault), fault)

\* line 70
PlotPrecisionRecallCurve(F) ==
    /\ pc = "plot_precision_recall_curve"
    /\ \E fault \in F \cap {"none", "metrics", "render", "write"} :
         Generated(pc, call_plot_precision_recall_curve(df, World, fault), fault)

\* line 72, then the function returns None
LogSuccess ==
    /\ pc = "success"
    /\ log' = Append(log, Info("Evaluation reports and plots generated successfully."))
    /\ pc' = "returned"
    /\ calls' = Append(calls, "success")
    /\ UNCHANGED <<df, model, dirExists, files, figs, escaped, runs, injected, written,
                   budget>>

AllFaults == Faults \cup {"inference", "mkdir"}

Next ==
    \/ Call(MaxRuns)
    \/ PredictProba(AllFaults)
    \/ ThresholdStep
    \/ MakeDirs(AllFaults)
    \/ PlotConfusionMatrix(AllFaults)
    \/ GenerateClassificationReport(AllFaults)
    \/ PlotRocCurve(AllFaults)
    \/ PlotPrecisionRecallCurve(AllFaults)
    \/ LogSuccess

Spec == Init /\ [][Next]_vars

\* Fault-free single runs over larger data frames: the metric values.
InitMetrics == InitWith(MaxN, ProbValues, 0)

NextMetrics ==
    \/ Call(1)
    \/ PredictProba({"none"})
    \/ ThresholdStep
    \/ MakeDirs({"none"})
    \/ PlotConfusionMatrix({"none"})
    \/ GenerateClassificationReport({"none"})
    \/ PlotRocCurve({"none"})
    \/ PlotPrecisionRecallCurve({"none"})
    \/ LogSuccess

SpecMetrics == InitMetrics /\ [][NextMetrics]_vars

\* ------------------------------------------------------------------ claims
Generators == {"plot_confusion_matrix", "generate_classification_report",
               "plot_roc_curve", "plot_precision_recall_curve"}

GenFile(g) ==
    CASE g = "plot_confusion_matrix"          -> CM_FILE
      [] g = "generate_classification_report" -> CR_FILE
      [] g = "plot_roc_curve"                 -> ROC_FILE
      [] g = "plot_precision_recall_curve"    -> PR_FILE

ErrorRecords == {i \in 1..Len(log) : log[i].level = "ERROR"}

\* a failure was injected into function s of the current call
Failed(s) == \E f \in AllFaults : <<s, f>> \in injected

\* inference and directory creation of the current call both succeeded
Prepared == "makedirs" \in Range(calls) /\ ~Failed("predict_proba") /\ ~Failed("makedirs")

SuccessMsg == "Evaluation reports and plots generated successfully."
TopFailureMsg == "Failed to generate evaluation reports and plots"

\* C1: no exception leaves generate_evaluation_reports_and_plots or any of the
\* four generators, whatever fails, and every failure is logged with its
\* original error text.
C1_NoExceptionEscapes ==
    /\ escaped = NoExc
    /\ \A sf \in injected :
         \E i \in ErrorRecords : log[i].err = ErrText(sf[2])
    /\ Cardinality(ErrorRecords) = Cardinality(injected)
    /\ pc = "plot_confusion_matrix" =>
         \A f \in Faults : call_plot_confusion_matrix(df, World, f).exc = NoExc
    /\ pc = "generate_classification_report" =>
         \A f \in Faults :
            call_generate_classification_report(df, World, f).exc = NoExc
    /\ pc = "plot_roc_curve" =>
         \A f \in Faults : call_plot_roc_curve(df, World, f).exc = NoExc
    /\ pc = "plot_precision_recall_curve" =>
         \A f \in Faults :
            call_plot_precision_recall_curve(df, World, f).exc = NoExc

\* C1 witness: a call returned normally after all four generators failed.
C1_Witness ==
    /\ pc = "returned"
    /\ escaped = NoExc
    /\ \A g \in Generators : Failed(g)
    /\ Cardinality(ErrorRecords) = 4

\* C2: when inference and directory creation succeeded, every generator is
\* invoked, and a generator's file is written exactly when that generator did
\* not itself fail, whatever the other generators did.
C2_GeneratorsIsolated ==
    (pc = "returned" /\ Prepared) =>
        \A g \in Generators :
            /\ g \in Range(calls)
            /\ (GenFile(g) \in written) <=> ~Failed(g)

\* C2 witness: only the classification report failed; the other three files
\* were written.
C2_Witness ==
    /\ pc = "returned"
    /\ injected = {<<"generate_classification_report", "write">>}
    /\ written = {CM_FILE, ROC_FILE, PR_FILE}

\* C3: the plotting generators close their figure on every exit path, so the
\* number of open figures is the same after any sequence of generator calls
\* as before it (none is open initially).
C3_FiguresNeverAccumulate == figs = 0

\* The rows of the data frame, and a row's label under the 0.5 threshold as
\* the data model states it (probability p/ProbScale >= 1/2).
Rows == 1..Len(df["yo2"])
Thresholded(p) == IF 2 * p >= ProbScale THEN 1 ELSE 0

\* C4: the predicted label of every record is 1 exactly when its predicted
\* probability is >= 0.5 (0.5 itself gives 1), is 0 or 1, and sits at the
\* position of the probability (and the text) it was derived from.
C4_ThresholdInclusive ==
    "predicted_yo2" \in DOMAIN df =>
        /\ Len(df["predicted_yo2"]) = Len(df["yo2"])
        /\ Len(df["predicted_proba"]) = Len(df["yo2"])
        /\ \A i \in Rows :
             /\ df["predicted_proba"][i] = model[df["full_text"][i]]
             /\ df["predicted_yo2"][i] \in {0, 1}
             /\ (df["predicted_yo2"][i] = 1) <=> (2 * df["predicted_proba"][i] >= ProbScale)

\* C4 witness: a record with probability exactly 0.5 got predicted label 1,
\* next to a record below the threshold with label 0.
C4_Witness ==
    /\ "predicted_yo2" \in DOMAIN df
    /\ \E i, j \in Rows :
         /\ 2 * df["predicted_proba"][i] = ProbScale /\ df["predicted_yo2"][i] = 1
         /\ 2 * df["predicted_proba"][j] < ProbScale /\ df["predicted_yo2"][j] = 0

TwoClass == Labels \subseteq Range(df["yo2"])

ArtifactOf(name) ==
    CASE name = CM_FILE  -> "confusion_matrix"
      [] name = CR_FILE  -> "classification_report"
      [] name = ROC_FILE -> "roc_curve"
      [] name = PR_FILE  -> "precision_recall_curve"

\* C5: after a call on a two-class data frame in which nothing failed, the
\* output directory exists and holds exactly the four artifacts under their
\* fixed names, each written once by its own generator in this call.
C5_AllFourArtifacts ==
    (pc = "returned" /\ injected = {} /\ TwoClass) =>
        /\ dirExists
        /\ DOMAIN files = FileNames
        /\ written = FileNames
        /\ \A f \in FileNames :
             Len(files[f]) = 1 /\ files[f][1].artifact = ArtifactOf(f)

\* C5 witness: a first, failure-free call on a two-class frame has returned.
C5_Witness ==
    /\ pc = "returned" /\ runs = 1 /\ injected = {} /\ TwoClass
    /\ DOMAIN files = FileNames

\* The state a single failure-free call produces from a fresh process: the
\* data frame with both new columns, and the four files.
FreshWorld == [dirExists |-> TRUE, files |-> <<>>, figs |-> 0, log |-> <<>>,
               written |-> {}, exc |-> NoExc]
OneRunDf ==
    LET p == predict_proba(df["full_text"], model)
    IN ("predicted_yo2" :> threshold_labels(p)) @@ ("predicted_proba" :> p) @@
       [c \in {"yo2", "full_text"} |-> df[c]]
OneRunFiles ==
    LET w1 == call_plot_confusion_matrix(OneRunDf, FreshWorld, "none")
        w2 == call_generate_classification_report(OneRunDf, w1, "none")
        w3 == call_plot_roc_curve(OneRunDf, w2, "none")
    IN call_plot_precision_recall_curve(OneRunDf, w3, "none").files

\* C6: a second (or later) failure-free call on the same output directory and
\* the same data frame, now carrying both prediction columns, returns
\* normally and leaves exactly what one call leaves: the same four names,
\* each file holding the latest call's artifact alone, and the same columns.
C6_RerunOverwrites ==
    (pc = "returned" /\ runs >= 2 /\ injected = {}) =>
        /\ escaped = NoExc
        /\ ErrorRecords = {}
        /\ dirExists
        /\ DOMAIN files = FileNames
        /\ files = OneRunFiles
        /\ df = OneRunDf

\* C6 witness: two calls, both without any failure, have returned.
C6_Witness ==
    /\ pc = "returned" /\ runs = 2 /\ injected = {} /\ budget = MaxFaults
    /\ DOMAIN files = FileNames

\* the distinct values among the true and the predicted labels
LabelUnion == Range(df["yo2"]) \cup Range(df["predicted_yo2"])

IsSquare(m, k) == Len(m) = k /\ \A i \in 1..k : Len(m[i]) = k

\* C7: when true and predicted labels together hold one distinct value, the
\* confusion matrix and the classification report are produced without
\* failure over that single label: a 1x1 matrix whose entry is the number of
\* records, and a report of one row; when they hold two distinct values
\* (also when all true labels are one class and all predictions the other)
\* the matrix is 2x2.
C7_SingleClassHandled ==
    (pc = "returned" /\ injected = {} /\ "makedirs" \in Range(calls)) =>
        LET disp == files[CM_FILE][1]
            rows == files[CR_FILE][1].rows
            n    == Len(df["yo2"])
        IN /\ {CM_FILE, CR_FILE} \subseteq written
           /\ ErrorRecords = {}
           /\ Cardinality(LabelUnion) = 1 =>
                /\ IsSquare(disp.cm, 1)
                /\ disp.cm[1][1] = n
                /\ Range(disp.display_labels) = LabelUnion
                /\ Len(rows) = 1
                /\ rows[1].name \in LabelUnion
                /\ rows[1].support = n
           /\ Cardinality(LabelUnion) = 2 =>
                /\ IsSquare(disp.cm, 2)
                /\ Len(rows) = 2

\* C7 witness: a frame of several records, all of true label 0 and all
\* predicted 0, was reported with a 1x1 matrix.
C7_Witness ==
    /\ pc = "returned" /\ CM_FILE \in written /\ CR_FILE \in written
    /\ Len(df["yo2"]) >= 2
    /\ LabelUnion = {0}
    /\ IsSquare(files[CM_FILE][1].cm, 1)

\* every positive record scores above every negative one, with the 0.5
\* threshold between them
PerfectlySeparated ==
    \A i \in Rows :
        IF df["yo2"][i] = 1 THEN 2 * df["predicted_proba"][i] >= ProbScale
        ELSE 2 * df["predicted_proba"][i] < ProbScale

\* C8: for a two-class frame, entry (i, j) of the confusion matrix is the
\* number of records of true label i whose probability thresholds to j, the
\* entries sum to the number of records, and when the scores separate the
\* classes perfectly the matrix is diagonal and ROC AUC and average precision
\* are both 1; true labels [0,0,1,1] with probabilities [.1,.4,.6,.9] give
\* predicted labels [0,0,1,1] and the matrix [[2,0],[0,2]].
C8_MetricValues ==
    (pc = "returned" /\ TwoClass /\ injected = {} /\ "makedirs" \in Range(calls)) =>
        LET cm  == files[CM_FILE][1].cm
            roc == files[ROC_FILE][1].auc
            ap  == files[PR_FILE][1].avg_precision
            y   == df["yo2"]
            p   == df["predicted_proba"]
        IN /\ IsSquare(cm, 2)
           /\ \A i, j \in {0, 1} :
                cm[i + 1][j + 1] =
                    Cardinality({k \in Rows : y[k] = i /\ Thresholded(p[k]) = j})
           /\ cm[1][1] + cm[1][2] + cm[2][1] + cm[2][2] = Len(y)
           /\ PerfectlySeparated =>
                /\ cm[1][2] = 0 /\ cm[2][1] = 0
                /\ roc.den > 0 /\ roc.num = roc.den
                /\ ap.den > 0 /\ ap.num = ap.den
           /\ (y = <<0, 0, 1, 1>> /\ p = <<1, 4, 6, 9>>) =>
                /\ df["predicted_yo2"] = <<0, 0, 1, 1>>
                /\ cm = <<<<2, 0>>, <<0, 2>>>>
                /\ roc.num = roc.den
                /\ ap.num = ap.den

\* C8 witness: the run on true labels [0,0,1,1] with probabilities
\* [.1,.4,.6,.9] has returned with its artifacts written.
C8_Witness ==
    /\ pc = "returned"
    /\ df["yo2"] = <<0, 0, 1, 1>>
    /\ "predicted_proba" \in DOMAIN df /\ df["predicted_proba"] = <<1, 4, 6, 9>>
    /\ written = FileNames

PipelineOrder ==
    <<"predict_proba", "threshold", "makedirs", "plot_confusion_matrix",
      "generate_classification_report", "plot_roc_curve",
      "plot_precision_recall_curve", "success">>

\* C9: within a call, the functions run in the order inference, thresholding,
\* directory creation, confusion matrix, classification report, ROC curve,
\* precision-recall curve; no generator is invoked before inference,
\* thresholding and directory creation have succeeded; when inference or
\* directory creation fails no generator is invoked and no file is written in
\* that call, and when inference fails (first call) no directory is created
\* and the data frame gains no column.
C9_PipelineOrder ==
    /\ Len(calls) <= Len(PipelineOrder)
    /\ \A i \in 1..Len(calls) : calls[i] = PipelineOrder[i]
    /\ (\E g \in Generators : g \in Range(calls)) =>
          /\ {"predict_proba", "threshold", "makedirs"} \subseteq Range(calls)
          /\ ~Failed("predict_proba") /\ ~Failed("makedirs")
          /\ dirExists
          /\ {"predicted_proba", "predicted_yo2"} \subseteq DOMAIN df
    /\ (Failed("predict_proba") \/ Failed("makedirs")) =>
          /\ Range(calls) \cap Generators = {}
          /\ written = {}
          /\ pc = "returned"
    /\ Failed("predict_proba") => calls = <<"predict_proba">>
    /\ (Failed("predict_proba") /\ runs = 1) =>
          /\ ~dirExists
          /\ DOMAIN df = {"yo2", "full_text"}
          /\ files = <<>>

\* C9 witness: the first call's inference failed and the call returned with
\* nothing created.
C9_Witness ==
    /\ pc = "returned" /\ runs = 1
    /\ Failed("predict_proba")
    /\ calls = <<"predict_proba">>

Logged(level, msg) == \E i \in 1..Len(log) : log[i].level = level /\ log[i].msg = msg

\* C10: a returned call has logged the success message exactly when its
\* inference, thresholding and directory creation succeeded, whatever the
\* four generators did (even when none of them wrote a file), and has logged
\* the top-level failure message exactly when inference or directory
\* creation failed.
C10_SuccessMessage ==
    pc = "returned" =>
        /\ Logged("INFO", SuccessMsg) <=> Prepared
        /\ Logged("ERROR", TopFailureMsg) <=>
              (Failed("predict_proba") \/ Failed("makedirs"))
        /\ ~(Logged("INFO", SuccessMsg) /\ Logged("ERROR", TopFailureMsg))

\* C10 witness: the success message was logged by a call in which all four
\* generators failed and no file was written.
C10_Witness ==
    /\ pc = "returned"
    /\ Logged("INFO", SuccessMsg)
    /\ \A g \in Generators : Failed(g)
    /\ written = {}

====
